---------------------------- MODULE Spec2Model ----------------------------
(***************************************************************************)
(* A model of src/prediction.py: the session summarizer                    *)
(* (get_session_data), the qualifying extractor (get_qualifying_positions),*)
(* the score aggregator (calculate_prediction_score), the reporter and     *)
(* driver (predict_race_winner) and the script's top level (__main__).     *)
(*                                                                         *)
(* Numbers.  The code computes in float64 and in pandas Timedelta.  The    *)
(* model computes exactly: a float is a normalised fraction <<n, d>> with  *)
(* d > 0, NaN/None is <<>>; a Timedelta is <<ms>> in whole milliseconds    *)
(* (the timing resolution of the provider) and NaT is <<>>.  Rounding of   *)
(* float64 and of Timedelta below a millisecond is outside the model.      *)
(***************************************************************************)
EXTENDS Integers, Sequences, FiniteSets, TLC

(***************************************************************************)
(* Exact arithmetic on fractions.                                          *)
(***************************************************************************)
Abs(n) == IF n < 0 THEN -n ELSE n

RECURSIVE GCD(_, _)
GCD(a, b) == IF b = 0 THEN a ELSE GCD(b, a % b)

Norm(n, d) ==
    LET g == GCD(Abs(n), d)
    IN  <<n \div g, d \div g>>

NaN == <<>>
notna(x) == x # <<>>

RInt(n) == <<n, 1>>
RAdd(x, y) == Norm(x[1] * y[2] + y[1] * x[2], x[2] * y[2])
RSub(x, y) == Norm(x[1] * y[2] - y[1] * x[2], x[2] * y[2])
RMul(x, y) == Norm(x[1] * y[1], x[2] * y[2])
RDivInt(x, k) == Norm(x[1], x[2] * k)
RLe(x, y) == x[1] * y[2] <= y[1] * x[2]
RLt(x, y) == x[1] * y[2] < y[1] * x[2]
\* x / y for y > 0
RDiv(x, y) == Norm(x[1] * y[2], x[2] * y[1])
RMin2(x, y) == IF RLe(x, y) THEN x ELSE y

RECURSIVE RSum(_)
RSum(s) == IF s = <<>> THEN RInt(0) ELSE RAdd(Head(s), RSum(Tail(s)))

RECURSIVE ISum(_)
ISum(s) == IF s = <<>> THEN 0 ELSE Head(s) + ISum(Tail(s))

RECURSIVE IMin(_)
IMin(s) == IF Len(s) = 1 THEN s[1]
           ELSE LET m == IMin(Tail(s)) IN IF Head(s) <= m THEN Head(s) ELSE m

\* floor(sqrt(v)) by bisection on lo..hi, lo*lo <= v < (hi+1)*(hi+1)
RECURSIVE ISqrtIn(_, _, _)
ISqrtIn(v, lo, hi) ==
    IF lo = hi THEN lo
    ELSE LET mid == (lo + hi + 1) \div 2
         IN  IF mid * mid <= v THEN ISqrtIn(v, mid, hi) ELSE ISqrtIn(v, lo, mid - 1)

RECURSIVE SqrtCeiling(_, _)
SqrtCeiling(v, k) == IF k * k > v THEN k ELSE SqrtCeiling(v, 2 * k)

ISqrt(v) == ISqrtIn(v, 0, SqrtCeiling(v, 1))

(***************************************************************************)
(* Sequences as pandas uses them.                                          *)
(***************************************************************************)
Range(s) == {s[i] : i \in 1..Len(s)}

\* Series.unique(): the distinct values in order of first appearance
RECURSIVE Unique(_)
Unique(s) ==
    IF s = <<>> THEN <<>>
    ELSE LET front == Unique(SubSeq(s, 1, Len(s) - 1))
             last  == s[Len(s)]
         IN  IF last \in Range(front) THEN front ELSE Append(front, last)

RECURSIVE Concat(_)
Concat(tables) == IF tables = <<>> THEN <<>> ELSE Head(tables) \o Concat(Tail(tables))

\* all sequences over S of length 0..n
SeqUpTo(S, n) == UNION {[1..k -> S] : k \in 0..n}

\* all sequences of pairwise distinct elements of S of length 0..n
DistinctSeqUpTo(S, n) == {s \in SeqUpTo(S, n) : Cardinality(Range(s)) = Len(s)}

(***************************************************************************)
(* Timedelta.                                                              *)
(***************************************************************************)
NaT == <<>>
Timedelta(ms) == <<ms>>
total_seconds(td) == Norm(td[1], 1000)

(***************************************************************************)
(* get_session_data, lines 20-42: the summary of one session's laps.       *)
(***************************************************************************)
\* a variant of LapMin that takes the slowest lap
RECURSIVE IMax(_)
IMax(s) == IF Len(s) = 1 THEN s[1]
           ELSE LET m == IMax(Tail(s)) IN IF Head(s) >= m THEN Head(s) ELSE m

LapMin_Slowest(ms) == <<IMax(ms)>>

\* lines 28-31: the statistics of one driver's valid laps
LapMin(ms)  == Timedelta(IMin(ms))
LapMeanSeconds(ms) == Norm(ISum(ms), 1000 * Len(ms))
\* Series.std(): the sample standard deviation (ddof = 1), NaT below two laps;
\* sum (n*x - S)^2 / (n^2 (n-1)) is the sample variance, and the result is a
\* Timedelta, so its root is cut to the Timedelta resolution
LapStd(ms) ==
    IF Len(ms) < 2 THEN NaT
    ELSE LET n  == Len(ms)
             S  == ISum(ms)
             sq == ISum([i \in 1..n |-> (n * ms[i] - S) * (n * ms[i] - S)])
         IN  Timedelta(ISqrt(sq \div (n * n * (n - 1))))

SecondsOrNone(td) == IF notna(td) THEN total_seconds(td) ELSE NaN

ValidLaps(lap_times) == SelectSeq(lap_times, LAMBDA l : notna(l.LapTime))

DriverRow(valid_laps, driver, session_name) ==
    LET driver_laps == SelectSeq(valid_laps, LAMBDA l : l.Driver = driver)
        ms == [i \in 1..Len(driver_laps) |-> driver_laps[i].LapTime[1]]
    IN  [Driver      |-> driver,
         FastestLap  |-> SecondsOrNone(LapMin(ms)),
         AverageLap  |-> LapMeanSeconds(ms),
         Consistency |-> SecondsOrNone(LapStd(ms)),
         TotalLaps   |-> Len(ms),
         Session     |-> session_name]

SummarizeLaps(lap_times, session_name) ==
    LET valid_laps == ValidLaps(lap_times)
        drivers == Unique([i \in 1..Len(valid_laps) |-> valid_laps[i].Driver])
    IN  [i \in 1..Len(drivers) |-> DriverRow(valid_laps, drivers[i], session_name)]

(***************************************************************************)
(* get_qualifying_positions, lines 56-68: one row per result row.          *)
(***************************************************************************)
QualRow(row) ==
    [Driver             |-> row.Abbreviation,
     QualifyingPosition |-> row.Position,
     Q1Time             |-> SecondsOrNone(row.Q1),
     Q2Time             |-> SecondsOrNone(row.Q2),
     Q3Time             |-> SecondsOrNone(row.Q3)]

ExtractQualifying(results) == [i \in 1..Len(results) |-> QualRow(results[i])]

(***************************************************************************)
(* calculate_prediction_score, lines 78-139.                               *)
(***************************************************************************)
\* a variant of SessionWeight whose fallback is the sprint weight
SessionWeight_Fallback025(session) ==
    CASE session = "FP1"    -> <<3, 20>>
      [] session = "FP2"    -> <<1, 4>>
      [] session = "FP3"    -> <<7, 20>>
      [] OTHER              -> <<1, 4>>

\* line 84 and the .get(..., 0.2) of line 92
SessionWeight(session) ==
    CASE session = "FP1"    -> <<3, 20>>
      [] session = "FP2"    -> <<1, 4>>
      [] session = "FP3"    -> <<7, 20>>
      [] session = "Sprint" -> <<1, 4>>
      [] OTHER              -> <<1, 5>>

\* line 83
DriverPractice(all_practice, driver) ==
    SelectSeq(all_practice, LAMBDA row : row.Driver = driver)

\* lines 89-92: the rows that contribute a fastest lap
TimedRows(driver_practice) ==
    SelectSeq(driver_practice, LAMBDA row : notna(row.FastestLap))

\* line 95: np.average(fastest_laps, weights=weights)
WeightedAverage(values, weights) ==
    RDiv(RSum([i \in 1..Len(values) |-> RMul(values[i], weights[i])]), RSum(weights))

AvgFastest(driver_practice) ==
    LET timed == TimedRows(driver_practice)
    IN  WeightedAverage([i \in 1..Len(timed) |-> timed[i].FastestLap],
                        [i \in 1..Len(timed) |-> SessionWeight(timed[i].Session)])

\* lines 97-98
DefaultConsistency == <<10, 1>>

AvgConsistency(driver_practice) ==
    LET rows == SelectSeq(driver_practice, LAMBDA row : notna(row.Consistency))
        consistency_scores == [i \in 1..Len(rows) |-> rows[i].Consistency]
    IN  IF consistency_scores # <<>>
        THEN RDivInt(RSum(consistency_scores), Len(consistency_scores))
        ELSE DefaultConsistency

\* line 100
TotalLaps(driver_practice) ==
    ISum([i \in 1..Len(driver_practice) |-> driver_practice[i].TotalLaps])

\* line 94: a profile is created only when some row has a fastest lap
HasProfile(all_practice, driver) ==
    TimedRows(DriverPractice(all_practice, driver)) # <<>>

\* lines 82-107: driver_scores before the practice scores are filled in
Profiles(all_practice) ==
    LET drivers == {all_practice[i].Driver : i \in 1..Len(all_practice)}
    IN  [d \in {x \in drivers : HasProfile(all_practice, x)} |->
            [AvgFastestLap |-> AvgFastest(DriverPractice(all_practice, d)),
             Consistency   |-> AvgConsistency(DriverPractice(all_practice, d)),
             TotalLaps     |-> TotalLaps(DriverPractice(all_practice, d))]]

\* line 110
FastestOverall(profiles) ==
    LET d0 == CHOOSE d \in DOMAIN profiles : \A e \in DOMAIN profiles :
                  RLe(profiles[d].AvgFastestLap, profiles[e].AvgFastestLap)
    IN  profiles[d0].AvgFastestLap

\* line 113
LapTimeScore(avg_fastest, fastest_overall) ==
    RMul(RSub(avg_fastest, fastest_overall), RInt(1000))

\* line 115: Python truth of a float: 0.0 is false
Truthy(x) == x[1] # 0

ConsistencyScore(consistency) ==
    IF Truthy(consistency) THEN RMul(consistency, RInt(100)) ELSE RInt(500)

\* line 116
ReliabilityScore(total_laps) == RMin2(Norm(total_laps, 50), RInt(1))

\* line 117
PracticeScore(data, fastest_overall) ==
    RSub(RAdd(LapTimeScore(data.AvgFastestLap, fastest_overall),
              ConsistencyScore(data.Consistency)),
         RMul(ReliabilityScore(data.TotalLaps), RInt(100)))

\* lines 109-117: driver_scores with the practice scores
DriverScores(all_practice) ==
    LET profiles == Profiles(all_practice)
    IN  [d \in DOMAIN profiles |->
            [AvgFastestLap |-> profiles[d].AvgFastestLap,
             Consistency   |-> profiles[d].Consistency,
             TotalLaps     |-> profiles[d].TotalLaps,
             PracticeScore |-> PracticeScore(profiles[d], FastestOverall(profiles))]]

\* a variant of FinalScore with the two weights exchanged
FinalScore_Swapped(qualifying_pos, practice_score) ==
    RAdd(RMul(RInt(qualifying_pos), <<2, 5>>),
         RDivInt(RMul(practice_score, <<3, 5>>), 100))

\* line 128
FinalScore(qualifying_pos, practice_score) ==
    RAdd(RMul(RInt(qualifying_pos), <<3, 5>>),
         RDivInt(RMul(practice_score, <<2, 5>>), 100))

\* line 124
Scored(driver, driver_scores) == driver \in DOMAIN driver_scores

\* a variant of ScoredRows that stops at the first scored row
ScoredRows_FirstOnly(qualifying_data, driver_scores) ==
    LET rows == SelectSeq(qualifying_data, LAMBDA q : q.Driver \in DOMAIN driver_scores)
    IN  IF rows = <<>> THEN rows ELSE <<rows[1]>>

\* lines 121-124: the qualifying rows that get a ranking row
ScoredRows(qualifying_data, driver_scores) ==
    SelectSeq(qualifying_data, LAMBDA q : Scored(q.Driver, driver_scores))

\* lines 121-137
FinalScores(qualifying_data, driver_scores) ==
    LET rows == ScoredRows(qualifying_data, driver_scores)
    IN  [i \in 1..Len(rows) |->
            [Driver             |-> rows[i].Driver,
             QualifyingPosition |-> rows[i].QualifyingPosition,
             PracticeScore      |-> driver_scores[rows[i].Driver].PracticeScore,
             FinalScore         |-> FinalScore(rows[i].QualifyingPosition,
                                               driver_scores[rows[i].Driver].PracticeScore),
             AvgFastestLap      |-> driver_scores[rows[i].Driver].AvgFastestLap,
             Consistency        |-> driver_scores[rows[i].Driver].Consistency]]

\* line 139, sort_values('FinalScore'): ascending; the default sort is not stable,
\* so rows of equal FinalScore may come out in either order
InOrder(x, y) == RLe(x.FinalScore, y.FinalScore)

SortValues(rows) ==
    {[i \in 1..Len(rows) |-> rows[p[i]]] :
        p \in {q \in [1..Len(rows) -> 1..Len(rows)] :
                  /\ \A i, j \in 1..Len(rows) : i # j => q[i] # q[j]
                  /\ \A i \in 1..(Len(rows) - 1) : InOrder(rows[q[i]], rows[q[i + 1]])}}

\* What a call can do: return a table, or raise.
Returned(table) == [raised |-> "", table |-> table]
Raised(error)   == [raised |-> error, table |-> <<>>]

\* line 78 raises ValueError on an empty list, line 82 raises KeyError('Driver')
\* when no table has a row (and so no column), line 139 raises
\* KeyError('FinalScore') when final_scores is empty (the frame has no column)
CalculatePredictionScore(practice_data, qualifying_data) ==
    IF practice_data = <<>> THEN {Raised("ValueError")}
    ELSE IF Concat(practice_data) = <<>> THEN {Raised("KeyError")}
    ELSE LET final_scores == FinalScores(qualifying_data, DriverScores(Concat(practice_data)))
         IN  IF final_scores = <<>> THEN {Raised("KeyError")}
             ELSE {Returned(r) : r \in SortValues(final_scores)}

(***************************************************************************)
(* The two fetch functions, lines 10-72.  provider_error names the         *)
(* provider call that raises ("" when none does); everything of the body   *)
(* is inside the try, and the handler returns an empty frame.              *)
(***************************************************************************)
EmptyFrame == <<>>

\* a variant of GetSessionData whose handler does not cover session.load()
GetSessionData_LoadUncaught(provider_error, lap_times, session_name) ==
    IF provider_error = "load"
    THEN Raised("load")
    ELSE IF provider_error # ""
         THEN Returned(<<>>)
         ELSE Returned(SummarizeLaps(lap_times, session_name))

\* lines 14-46
GetSessionData(provider_error, lap_times, session_name) ==
    IF provider_error # ""
    THEN Returned(EmptyFrame)
    ELSE Returned(SummarizeLaps(lap_times, session_name))

\* lines 52-72
GetQualifyingPositions(provider_error, results) ==
    IF provider_error # ""
    THEN Returned(EmptyFrame)
    ELSE Returned(ExtractQualifying(results))

(***************************************************************************)
(* State.                                                                  *)
(***************************************************************************)
VARIABLES
    pc,               \* the place the running code has reached
    year,             \* 2025 in predict_race_winner, 2024 in the fallback of __main__
    session_i,        \* index into practice_sessions of the loop of line 180 / 266
    practice_data,    \* the list of session tables (line 178 / 265)
    qualifying_data,  \* the qualifying table (line 190 / 271)
    data,             \* the table of the session fetched last (line 182 / 267)
    predictions,      \* the ranking, or None (line 202 / 254 / 274)
    error,            \* the exception raised, "" when none
    provider_error,   \* the provider call that raises in the fetch under study
    session_name,     \* the session_name argument of the fetch under study
    lap_times,        \* session.laps of the fetch under study
    results           \* qualifying.results of the fetch under study

vars == <<pc, year, session_i, practice_data, qualifying_data, data, predictions,
          error, provider_error, session_name, lap_times, results>>

fetchVars == <<provider_error, session_name, lap_times, results>>

None == [is_none |-> TRUE, table |-> <<>>]
Frame(table) == [is_none |-> FALSE, table |-> table]

\* line 177
practice_sessions == <<"FP1", "FP2", "FP3">>

(***************************************************************************)
(* Bounds and input domains.                                               *)
(***************************************************************************)
MaxLaps == 3
MaxRows == 2
MaxQual == 2
MaxRunLaps == 1
MaxRunQual == 3

Drivers == {"A", "B", "C"}
FetchDrivers == {"A", "B"}
LapTimes == {NaT, Timedelta(90000), Timedelta(90500), Timedelta(91000)}
LapRecords(D, T) == [Driver : D, LapTime : T]
StageTimes == {NaT, Timedelta(88000)}
ProviderErrors == {"", "get_session", "load"}

\* the provider's result rows: one per driver, in classification order
ResultRows(order, Q) ==
    {r \in [1..Len(order) -> [Abbreviation : Drivers, Position : 1..Len(order),
                              Q1 : Q, Q2 : Q, Q3 : Q]] :
        \A i \in 1..Len(order) : r[i].Abbreviation = order[i] /\ r[i].Position = i}

(***************************************************************************)
(* SpecFetch: one call of get_session_data or get_qualifying_positions     *)
(* against every answer of the provider within the bounds.                 *)
(***************************************************************************)
QualifyingResults(D, n, Q) ==
    UNION {ResultRows(order, Q) : order \in DistinctSeqUpTo(D, n)}

InitFetch ==
    /\ pc \in {"get_session_data", "get_qualifying_positions"}
    /\ provider_error \in ProviderErrors
    /\ IF pc = "get_session_data"
       THEN /\ session_name \in Range(practice_sessions)
            /\ lap_times \in IF provider_error = ""
                             THEN SeqUpTo(LapRecords(FetchDrivers, LapTimes), MaxLaps)
                             ELSE {<<>>}
            /\ results = <<>>
       ELSE /\ session_name = "Q"
            /\ lap_times = <<>>
            /\ results \in IF provider_error = ""
                           THEN QualifyingResults(FetchDrivers, MaxQual, StageTimes)
                           ELSE {<<>>}
    /\ year = 2025
    /\ session_i = 1
    /\ practice_data = <<>>
    /\ qualifying_data = <<>>
    /\ data = <<>>
    /\ predictions = None
    /\ error = ""

CallGetSessionData ==
    /\ pc = "get_session_data"
    /\ LET out == GetSessionData(provider_error, lap_times, session_name)
       IN  /\ data' = out.table
           /\ error' = out.raised
           /\ pc' = IF out.raised = "" THEN "fetched" ELSE "fetch_raised"
    /\ UNCHANGED <<year, session_i, practice_data, qualifying_data, predictions, fetchVars>>

CallGetQualifyingPositions ==
    /\ pc = "get_qualifying_positions"
    /\ LET out == GetQualifyingPositions(provider_error, results)
       IN  /\ qualifying_data' = out.table
           /\ error' = out.raised
           /\ pc' = IF out.raised = "" THEN "fetched" ELSE "fetch_raised"
    /\ UNCHANGED <<year, session_i, practice_data, data, predictions, fetchVars>>

NextFetch == CallGetSessionData \/ CallGetQualifyingPositions

SpecFetch == InitFetch /\ [][NextFetch]_vars

(***************************************************************************)
(* SpecScore: one call of calculate_prediction_score on every input        *)
(* within the bounds, and on the example of the specification.             *)
(***************************************************************************)
SessionNames  == {"FP1", "FP2", "FP3", "Sprint", "SQ"}
ScoreDrivers  == {"A", "B"}

SummaryRows(drivers, sessions, fastest, consistencies, counts) ==
    [Driver : drivers, FastestLap : fastest, Consistency : consistencies,
     TotalLaps : counts, Session : sessions]

\* rows of one driver in every session name, with and without a fastest lap
WeightRows ==
    SummaryRows({"A"}, SessionNames, {NaN, <<90, 1>>, <<91, 1>>}, {<<1, 5>>}, {50})

\* rows of two drivers in one session with every consistency and lap count
ScoreRows ==
    SummaryRows(ScoreDrivers, {"FP1"}, {<<90, 1>>, <<91, 1>>},
                {NaN, <<0, 1>>, <<7, 2>>}, {25, 50})

ExampleRow(driver, fastest, consistency) ==
    [Driver |-> driver, FastestLap |-> fastest, Consistency |-> consistency,
     TotalLaps |-> 20, Session |-> "FP1"]

ExamplePractice ==
    << <<ExampleRow("A", <<90, 1>>, <<1, 5>>),
         ExampleRow("B", <<181, 2>>, <<3, 10>>),
         ExampleRow("C", <<91, 1>>, <<1, 10>>)>> >>

ExampleQualifying ==
    ExtractQualifying(CHOOSE r \in ResultRows(<<"B", "A", "C">>, {NaT}) : TRUE)

\* no table, or one table of up to MaxRows rows
PracticeInputs ==
    {<<>>} \cup {<<t>> : t \in SeqUpTo(WeightRows, MaxRows) \cup SeqUpTo(ScoreRows, MaxRows)}

ScoreInputs ==
    (PracticeInputs
        \X {ExtractQualifying(r) : r \in QualifyingResults(Drivers, MaxQual, {NaT})})
    \cup {<<ExamplePractice, ExampleQualifying>>}

InitScore ==
    /\ pc = "calculate_prediction_score"
    /\ \E in \in ScoreInputs : practice_data = in[1] /\ qualifying_data = in[2]
    /\ year = 2025
    /\ session_i = 1
    /\ data = <<>>
    /\ predictions = None
    /\ error = ""
    /\ provider_error = ""
    /\ session_name = ""
    /\ lap_times = <<>>
    /\ results = <<>>

Calculate ==
    /\ pc = "calculate_prediction_score"
    /\ \E out \in CalculatePredictionScore(practice_data, qualifying_data) :
          /\ predictions' = IF out.raised = "" THEN Frame(out.table) ELSE None
          /\ error' = out.raised
          /\ pc' = IF out.raised = "" THEN "calculated" ELSE "calculate_raised"
    /\ UNCHANGED <<year, session_i, practice_data, qualifying_data, data, fetchVars>>

NextScore == Calculate

SpecScore == InitScore /\ [][NextScore]_vars

(***************************************************************************)
(* Spec: the script, lines 141-285.  Every fetch is answered by the        *)
(* provider with an error or with any table within the bounds.             *)
(***************************************************************************)
RunLapTimes == {NaT, Timedelta(90000)}

\* what get_session_data can return for a session
SessionTables(name) ==
    {GetSessionData(e, l, name).table :
        e \in ProviderErrors, l \in SeqUpTo(LapRecords(Drivers, RunLapTimes), MaxRunLaps)}

\* what get_qualifying_positions can return
QualifyingTables ==
    {GetQualifyingPositions(e, r).table :
        e \in ProviderErrors, r \in QualifyingResults(Drivers, MaxRunQual, {Timedelta(88000)})}

Init ==
    /\ pc = "main"
    /\ year = 2025
    /\ session_i = 1
    /\ practice_data = <<>>
    /\ qualifying_data = <<>>
    /\ data = <<>>
    /\ predictions = None
    /\ error = ""
    /\ provider_error = ""
    /\ session_name = ""
    /\ lap_times = <<>>
    /\ results = <<>>

\* lines 244-254: the schedule is printed (its failure is caught at line 251),
\* then predict_race_winner is called
MainStart ==
    /\ pc = "main"
    /\ pc' = "find_gp"
    /\ UNCHANGED <<year, session_i, practice_data, qualifying_data, data, predictions,
                   error, fetchVars>>

\* lines 148-178: the event is found, or None is returned at line 173
FindGP ==
    /\ pc = "find_gp"
    /\ \E found \in BOOLEAN :
          pc' = IF found THEN "load_practice" ELSE "return_173"
    /\ session_i' = 1
    /\ practice_data' = <<>>
    /\ UNCHANGED <<year, qualifying_data, data, predictions, error, fetchVars>>

\* a variant of Insufficient that needs both inputs to be missing
Insufficient_Both(practice, qualifying) == practice = <<>> /\ qualifying = <<>>

\* line 197 (and, negated, line 273)
Insufficient(practice, qualifying) == practice = <<>> \/ qualifying = EmptyFrame

\* one turn of the loop of lines 180-187 (pc = "load_practice") or 266-269
\* (pc = "fallback_practice")
LoadSession(here, after) ==
    /\ pc = here
    /\ \E table \in SessionTables(practice_sessions[session_i]) :
          /\ data' = table
          /\ practice_data' = IF table # EmptyFrame
                              THEN Append(practice_data, table)
                              ELSE practice_data
    /\ IF session_i < Len(practice_sessions)
       THEN session_i' = session_i + 1 /\ pc' = here
       ELSE session_i' = session_i /\ pc' = after
    /\ UNCHANGED <<year, qualifying_data, predictions, error, fetchVars>>

LoadPractice == LoadSession("load_practice", "load_qualifying")

\* lines 189-199
LoadQualifying ==
    /\ pc = "load_qualifying"
    /\ \E table \in QualifyingTables :
          /\ qualifying_data' = table
          /\ pc' = IF Insufficient(practice_data, table)
                   THEN "return_199"
                   ELSE "analyze"
    /\ UNCHANGED <<year, session_i, practice_data, data, predictions, error, fetchVars>>

\* lines 202-206: an exception of the aggregator leaves predict_race_winner
\* and is caught at line 282
Analyze ==
    /\ pc = "analyze"
    /\ \E out \in CalculatePredictionScore(practice_data, qualifying_data) :
          IF out.raised # ""
          THEN /\ error' = out.raised
               /\ pc' = "except_282"
               /\ UNCHANGED predictions
          ELSE /\ predictions' = Frame(out.table)
               /\ pc' = IF out.table = EmptyFrame THEN "return_206" ELSE "report"
               /\ UNCHANGED error
    /\ UNCHANGED <<year, session_i, practice_data, qualifying_data, data, fetchVars>>

\* lines 208-241: predictions.iloc[1] (line 227) and predictions.iloc[2]
\* (line 233) raise IndexError on a shorter table
Report ==
    /\ pc = "report"
    /\ IF Len(predictions.table) < 3
       THEN error' = "IndexError" /\ pc' = "except_282"
       ELSE error' = error /\ pc' = "return_241"
    /\ UNCHANGED <<year, session_i, practice_data, qualifying_data, data, predictions,
                   fetchVars>>

ReturnSites == {"return_173", "return_199", "return_206", "return_241"}

\* what predict_race_winner returns at each return statement
ReturnValue(site) == IF site = "return_241" THEN predictions ELSE None

\* lines 254-265: the returned value is tested; None starts the fallback
MainCheck ==
    /\ pc \in ReturnSites
    /\ predictions' = ReturnValue(pc)
    /\ IF ReturnValue(pc) = None
       THEN /\ pc' = "fallback_practice"
            /\ year' = 2024
            /\ session_i' = 1
            /\ practice_data' = <<>>
            /\ qualifying_data' = <<>>
            /\ data' = <<>>
       ELSE /\ pc' = "exit"
            /\ UNCHANGED <<year, session_i, practice_data, qualifying_data, data>>
    /\ UNCHANGED <<error, fetchVars>>

FallbackPractice == LoadSession("fallback_practice", "fallback_qualifying")

\* lines 271-273
FallbackQualifying ==
    /\ pc = "fallback_qualifying"
    /\ \E table \in QualifyingTables :
          /\ qualifying_data' = table
          /\ pc' = IF ~Insufficient(practice_data, table)
                   THEN "fallback_analyze"
                   ELSE "exit"
    /\ UNCHANGED <<year, session_i, practice_data, data, predictions, error, fetchVars>>

\* lines 274-280
FallbackAnalyze ==
    /\ pc = "fallback_analyze"
    /\ \E out \in CalculatePredictionScore(practice_data, qualifying_data) :
          IF out.raised # ""
          THEN /\ error' = out.raised
               /\ pc' = "except_282"
               /\ UNCHANGED predictions
          ELSE /\ predictions' = Frame(out.table)
               /\ pc' = "exit"
               /\ UNCHANGED error
    /\ UNCHANGED <<year, session_i, practice_data, qualifying_data, data, fetchVars>>

\* lines 282-285
Except ==
    /\ pc = "except_282"
    /\ pc' = "exit"
    /\ UNCHANGED <<year, session_i, practice_data, qualifying_data, data, predictions,
                   error, fetchVars>>

Next ==
    \/ MainStart
    \/ FindGP
    \/ LoadPractice
    \/ LoadQualifying
    \/ Analyze
    \/ Report
    \/ MainCheck
    \/ FallbackPractice
    \/ FallbackQualifying
    \/ FallbackAnalyze
    \/ Except

Spec == Init /\ [][Next]_vars

(***************************************************************************)
(* The claims.                                                             *)
(***************************************************************************)
AllPractice == Concat(practice_data)
Ranking == predictions.table
RankedDrivers == {Ranking[i].Driver : i \in 1..Len(Ranking)}
QualifyingDrivers == {qualifying_data[i].Driver : i \in 1..Len(qualifying_data)}

\* the drivers with a practice row whose FastestLap is defined
TimedDrivers ==
    {AllPractice[i].Driver : i \in {j \in 1..Len(AllPractice) : AllPractice[j].FastestLap # NaN}}

Overlap == QualifyingDrivers \cap TimedDrivers

\* C1: the drivers of the returned ranking are exactly the drivers that have a
\* qualifying row and a practice row with a defined FastestLap, each in one row.
C1_RankedDriversAreTheOverlap ==
    pc = "calculated" =>
        /\ RankedDrivers = Overlap
        /\ Len(Ranking) = Cardinality(Overlap)

\* a ranking was returned while one driver had only a practice profile and
\* another only a qualifying row
C1_Witness ==
    /\ pc = "calculated"
    /\ RankedDrivers # {}
    /\ TimedDrivers \ QualifyingDrivers # {}
    /\ QualifyingDrivers \ TimedDrivers # {}

\* C2: when no driver is in both the practice profiles and the qualifying rows,
\* the call returns an empty ranking and does not raise.
C2_EmptyOverlapReturnsEmptyRanking ==
    (pc # "calculate_prediction_score" /\ AllPractice # <<>> /\ Overlap = {}) =>
        (pc = "calculated" /\ predictions = Frame(<<>>))

\* C6: every ranking row has FinalScore = QualifyingPosition * 0.6 +
\* PracticeScore * 0.4 / 100, the rows are in non-decreasing FinalScore order,
\* and the example of the specification ranks A, B, C.
C6_RowFormula(r) ==
    r.FinalScore[1] * 250 * r.PracticeScore[2]
        = r.FinalScore[2] * (150 * r.QualifyingPosition * r.PracticeScore[2]
                             + r.PracticeScore[1])

C6_FinalScoreAndOrder ==
    pc = "calculated" =>
        /\ \A i \in 1..Len(Ranking) : C6_RowFormula(Ranking[i])
        /\ \A i \in 1..(Len(Ranking) - 1) :
              Ranking[i].FinalScore[1] * Ranking[i + 1].FinalScore[2]
                  <= Ranking[i + 1].FinalScore[1] * Ranking[i].FinalScore[2]
        /\ (practice_data = ExamplePractice /\ qualifying_data = ExampleQualifying) =>
              /\ [i \in 1..Len(Ranking) |-> Ranking[i].Driver] = <<"A", "B", "C">>
              /\ [i \in 1..Len(Ranking) |-> Ranking[i].FinalScore]
                    = << <<28, 25>>, <<64, 25>>, <<142, 25>> >>

\* a ranking whose first driver qualified behind its second
C6_Witness ==
    /\ pc = "calculated"
    /\ Len(Ranking) >= 2
    /\ Ranking[1].QualifyingPosition > Ranking[2].QualifyingPosition
    /\ Ranking[1].FinalScore # Ranking[2].FinalScore

\* C7: a driver whose weighted average fastest lap is fastest_overall, whose
\* averaged consistency is zero and who has at least 50 laps has practice
\* score -100.
C7_PerfectDriverScoresMinus100 ==
    pc = "calculated" =>
        \A i \in 1..Len(Ranking) :
            LET scores == DriverScores(AllPractice)
                d == Ranking[i].Driver
            IN  (/\ scores[d].AvgFastestLap = FastestOverall(Profiles(AllPractice))
                 /\ scores[d].Consistency = <<0, 1>>
                 /\ scores[d].TotalLaps >= 50)
                    => Ranking[i].PracticeScore = <<-100, 1>>

\* C8 as written: a session that is not FP1, FP2 or FP3 weighs 0.25.
C8_ClaimedWeight(session) ==
    CASE session = "FP1" -> <<3, 20>>
      [] session = "FP2" -> <<1, 4>>
      [] session = "FP3" -> <<7, 20>>
      [] OTHER           -> <<1, 4>>

\* C8 as amended: Sprint weighs 0.25 and any name outside the table 0.2.
C8_AmendedWeight(session) ==
    CASE session = "FP1"    -> <<3, 20>>
      [] session = "FP2"    -> <<1, 4>>
      [] session = "FP3"    -> <<7, 20>>
      [] session = "Sprint" -> <<1, 4>>
      [] OTHER              -> <<1, 5>>

C8_TimedRowsOf(driver) ==
    SelectSeq(AllPractice, LAMBDA row : row.Driver = driver /\ row.FastestLap # NaN)

\* AvgFastestLap * sum(weight) = sum(time * weight) over the driver's timed rows
C8_IsClaimedAverage(r) ==
    LET timed == C8_TimedRowsOf(r.Driver)
    IN  RMul(r.AvgFastestLap,
             RSum([i \in 1..Len(timed) |-> C8_ClaimedWeight(timed[i].Session)]))
            = RSum([i \in 1..Len(timed) |->
                      RMul(timed[i].FastestLap, C8_ClaimedWeight(timed[i].Session))])

C8_IsAmendedAverage(r) ==
    LET timed == C8_TimedRowsOf(r.Driver)
    IN  RMul(r.AvgFastestLap,
             RSum([i \in 1..Len(timed) |-> C8_AmendedWeight(timed[i].Session)]))
            = RSum([i \in 1..Len(timed) |->
                      RMul(timed[i].FastestLap, C8_AmendedWeight(timed[i].Session))])

\* C8 (original): every ranked driver's AvgFastestLap is the average of the
\* driver's defined fastest laps weighted FP1 0.15, FP2 0.25, FP3 0.35 and any
\* other session 0.25.
C8_WeightsAsClaimed ==
    pc = "calculated" =>
        \A i \in 1..Len(Ranking) : C8_IsClaimedAverage(Ranking[i])

\* C8 (amended): every ranked driver's AvgFastestLap is the average of the
\* driver's defined fastest laps weighted FP1 0.15, FP2 0.25, FP3 0.35,
\* Sprint 0.25 and any other session 0.2.
C8_WeightsAmended ==
    pc = "calculated" =>
        \A i \in 1..Len(Ranking) : C8_IsAmendedAverage(Ranking[i])

\* a ranked driver with two different fastest laps, one of them from a session
\* outside the weight table
C8_Witness ==
    /\ pc = "calculated"
    /\ \E i \in 1..Len(Ranking) :
          LET timed == C8_TimedRowsOf(Ranking[i].Driver)
          IN  /\ Len(timed) = 2
              /\ timed[1].FastestLap # timed[2].FastestLap
              /\ timed[1].Session = "FP3"
              /\ timed[2].Session = "SQ"

\* C4: an error raised by the provider inside get_session_data or
\* get_qualifying_positions never leaves the function: the call returns, and
\* returns an empty table when the provider raised.
C4_ProviderErrorsBecomeEmptyTables ==
    pc \notin {"get_session_data", "get_qualifying_positions"} =>
        /\ pc = "fetched"
        /\ error = ""
        /\ provider_error # "" => (data = EmptyFrame /\ qualifying_data = EmptyFrame)

\* a session fetch whose load() raised has returned
C4_Witness ==
    /\ pc = "fetched"
    /\ session_name # "Q"
    /\ provider_error = "load"

\* the laps of a driver that have a duration
C9_ValidLapsOf(driver) ==
    SelectSeq(lap_times, LAMBDA l : l.Driver = driver /\ l.LapTime # NaT)

C9_DriversWithValidLap ==
    {lap_times[i].Driver : i \in {j \in 1..Len(lap_times) : lap_times[j].LapTime # NaT}}

\* C9: get_session_data returns one row for each driver that has a lap with a
\* defined duration and none for any other driver; the row counts only those
\* laps, its FastestLap is the least of their durations, its AverageLap is
\* their arithmetic mean, and FastestLap <= AverageLap.
C9_RowStatistics ==
    (pc = "fetched" /\ session_name # "Q") =>
        /\ {data[i].Driver : i \in 1..Len(data)} = C9_DriversWithValidLap
        /\ Len(data) = Cardinality(C9_DriversWithValidLap)
        /\ \A i \in 1..Len(data) :
              LET r == data[i]
                  v == C9_ValidLapsOf(r.Driver)
              IN  /\ r.TotalLaps = Len(v)
                  /\ \E k \in 1..Len(v) : r.FastestLap = total_seconds(v[k].LapTime)
                  /\ \A k \in 1..Len(v) : RLe(r.FastestLap, total_seconds(v[k].LapTime))
                  /\ RMul(r.AverageLap, RInt(Len(v)))
                        = Norm(ISum([k \in 1..Len(v) |-> v[k].LapTime[1]]), 1000)
                  /\ RLe(r.FastestLap, r.AverageLap)

\* a driver with two laps of different duration got a row, and a driver whose
\* only lap has no duration got none
C9_Witness ==
    /\ pc = "fetched"
    /\ session_name # "Q"
    /\ \E i \in 1..Len(data) :
          data[i].TotalLaps = 2 /\ RLt(data[i].FastestLap, data[i].AverageLap)
    /\ \E k \in 1..Len(lap_times) :
          lap_times[k].LapTime = NaT /\ lap_times[k].Driver \notin C9_DriversWithValidLap

\* the sessions of the tables of practice_data, in order
SessionsLoaded == [i \in 1..Len(practice_data) |-> practice_data[i][1].Session]

\* how many turns of the loop of line 180 are done
TurnsDone == IF pc = "load_practice" THEN session_i - 1 ELSE Len(practice_sessions)

\* after each turn: the session fetched last is in the list exactly when its
\* table is not empty, and the list holds non-empty tables of the sessions
\* tried so far, in the order of practice_sessions
C3_AfterTurn ==
    pc \in {"load_practice", "load_qualifying"} =>
        /\ \A i \in 1..Len(practice_data) : practice_data[i] # EmptyFrame
        /\ \A i \in 1..Len(practice_data) :
              \E k \in 1..TurnsDone : SessionsLoaded[i] = practice_sessions[k]
        /\ \A i, j \in 1..Len(practice_data) :
              i < j => \E k, l \in 1..TurnsDone :
                          /\ k < l
                          /\ SessionsLoaded[i] = practice_sessions[k]
                          /\ SessionsLoaded[j] = practice_sessions[l]
        /\ TurnsDone >= 1 =>
              /\ data = EmptyFrame <=> practice_sessions[TurnsDone] \notin Range(SessionsLoaded)
              /\ data # EmptyFrame => practice_data[Len(practice_data)] = data

\* the aggregator is called, and has been called, only with a session and a
\* qualifying table; None is returned at line 199 only without one of them
C3_Fatal ==
    /\ (year = 2025 /\ pc \in {"analyze", "report", "return_206", "return_241", "except_282"})
          => (practice_data # <<>> /\ qualifying_data # EmptyFrame)
    /\ pc = "return_199" => (practice_data = <<>> \/ qualifying_data = EmptyFrame)

\* C3: an empty result for one or two practice sessions leaves that session
\* out of the list and the run goes on to the aggregator with the others; an
\* empty qualifying result, or three empty practice results, returns None at
\* line 199 and the aggregator is not called.
C3_EmptySessionsSkippedQualifyingFatal ==
    /\ [](C3_AfterTurn /\ C3_Fatal)
    /\ [][pc = "load_practice" =>
            \/ practice_data' = practice_data
            \/ practice_data' = Append(practice_data, data')]_vars
    /\ [][pc = "load_qualifying" =>
            (pc' = "analyze" <=> (practice_data # <<>> /\ qualifying_data' # EmptyFrame))]_vars

\* the aggregator is about to be called with FP2 alone: FP1 and FP3 were empty
C3_Witness ==
    /\ pc = "analyze"
    /\ SessionsLoaded = <<"FP2">>

\* C5: every fatal condition of the primary run (no qualifying data, no
\* practice session, no driver in both) makes predict_race_winner return None,
\* and the script then tries the fallback: the script never ends in the
\* primary year after a fatal condition.
C5_FatalConditionsReachFallback ==
    (pc = "exit" /\ year = 2025) =>
        ~(practice_data = <<>> \/ qualifying_data = EmptyFrame \/ Overlap = {})

\* C10: once the aggregator has returned a non-empty ranking to
\* predict_race_winner, the report completes and that ranking is returned,
\* whatever the number of ranked drivers.
C10_ReportCompletes ==
    (year = 2025 /\ ~predictions.is_none /\ Ranking # EmptyFrame) =>
        /\ pc \in {"report", "return_241", "exit"}
        /\ error = ""

=============================================================================
